---- MODULE Spec2Model ----
(***************************************************************************)
(* Model of the quiz bot of src/main.py: the aiogram handlers, the FSM     *)
(* storage they write, the message they edit, and the handle_answer tasks  *)
(* that are suspended in asyncio.sleep(1.5).                               *)
(*                                                                         *)
(* The handlers are registered on the callback data alone (F.data          *)
(* filters; TestStates is never set or filtered on), so a handler runs on  *)
(* whatever callback data arrives, whatever the message shows and whatever *)
(* the session holds. A step of the model is one handler run on callback   *)
(* data drawn from Tokens. dp.start_polling(bot) handles every update in a *)
(* task of its own, so the only suspension that is modelled, the pacing    *)
(* delay of handle_answer, splits that handler into two steps between      *)
(* which other handlers of the same chat run.                              *)
(***************************************************************************)
EXTENDS Integers, Sequences, FiniteSets, Bags, TLC

VARIABLES questions_data, storage, screen, tasks, last

vars == <<questions_data, storage, screen, tasks, last>>

(***************************************************************************)
(* Bounds and program constants                                            *)
(***************************************************************************)
\* the literal 60 of handle_answer (main.py:223, 246) and of the selection keyboard (main.py:81)
QuestionLimit == 60

\* a bank of SmallBank questions is loaded, besides banks of about QuestionLimit questions
SmallBank == 1

\* at most MaxTasks handle_answer tasks of one chat are suspended in the pacing delay at once
MaxTasks == 1

\* choice indexes a callback may carry: -1 .. MaxIdx
MaxIdx == 2

Chats == {"A"}

BankLens == {SmallBank, QuestionLimit, QuestionLimit + 1}

\* question numbers a callback may carry
QNums == (0..3) \cup (QuestionLimit..(QuestionLimit + 2))

Idxs == (0 - 1)..MaxIdx

Modes == {"continuous", "select"}

(***************************************************************************)
(* The question bank (QUESTIONS_BASE.json, loaded once by load_questions)  *)
(***************************************************************************)
\* a record of the bank: the number in its "question<k>" key, the text under
\* that key, its "answers" and its "correct_answer"
QuestionRecord(k, text, answers, correct) ==
    [qkey |-> k, text |-> text, answers |-> answers, correct_answer |-> correct]

\* the record loaded at position n: the banks differ in length and hold, by
\* position, well-formed records, a record whose correct answer is none of its
\* answers, a record without answers and a record without question text
RecordAt(n) ==
    CASE n % 7 = 1 -> QuestionRecord(n, "Q", <<"a", "A", "b">>, "a")
      [] n % 7 = 2 -> QuestionRecord(n, "Q", <<"a", "b">>, "c")
      [] n % 7 = 3 -> QuestionRecord(n, "Q", <<>>, "a")
      [] n % 7 = 4 -> QuestionRecord(n, "Q", <<"a", "b">>, "b")
      [] n % 7 = 5 -> QuestionRecord(n, "", <<"a", "b">>, "a")
      [] OTHER     -> QuestionRecord(n, "Q", <<"b", "a">>, "a")

load_questions(len) == [n \in 1..len |-> RecordAt(n)]

NoQuestion == QuestionRecord(0, "", <<>>, "")

\* the range check of get_question_by_number with its upper bound exclusive
FoundBelowLength(question_num) == 1 <= question_num /\ question_num < Len(questions_data)

\* get_question_by_number: None is modelled by NoQuestion, with Found telling them apart
Found(question_num) == 1 <= question_num /\ question_num <= Len(questions_data)

get_question_by_number(question_num) ==
    IF Found(question_num) THEN questions_data[question_num] ELSE NoQuestion

\* question_data.get(get_question_key(question_num), "")
QuestionText(question_data, question_num) ==
    IF question_data.qkey = question_num THEN question_data.text ELSE ""

(***************************************************************************)
(* Callback data                                                           *)
(***************************************************************************)
Token(kind, n, idx, mode) == [kind |-> kind, n |-> n, idx |-> idx, mode |-> mode]

Plain(kind) == Token(kind, 0, 0, "")
AnswerToken(question_num, idx, mode) == Token("answer", question_num, idx, mode)
SelectToken(num) == Token("select_q", num, 0, "")
NextToken(next_question, mode) == Token("next_question", next_question, 0, mode)

AnswerTokens == {AnswerToken(n, i, m) : n \in QNums, i \in Idxs, m \in Modes}

Tokens ==
    {Plain(k) : k \in {"start_test", "back_to_menu", "mode_continuous", "mode_select"}}
    \cup {SelectToken(n) : n \in QNums}
    \cup AnswerTokens
    \cup {NextToken(n, m) : n \in QNums, m \in Modes}

(***************************************************************************)
(* Callback data on the wire: the string a button carries, as a sequence   *)
(* of characters, the filter that routes it and the parsing of the handler *)
(***************************************************************************)
Digits == <<"0", "1", "2", "3", "4", "5", "6", "7", "8", "9">>

\* str(n) of an f-string field
RECURSIVE str(_)
str(n) ==
    IF n < 0 THEN <<"-">> \o str(0 - n)
    ELSE IF n < 10 THEN <<Digits[n + 1]>>
    ELSE str(n \div 10) \o <<Digits[(n % 10) + 1]>>

\* int(s) of a decimal numeral with an optional sign
RECURSIVE int(_)
int(s) ==
    IF s[1] = "-" THEN 0 - int(Tail(s))
    ELSE LET digit == CHOOSE d \in 0..9 : Digits[d + 1] = s[Len(s)]
         IN  IF Len(s) = 1 THEN digit
             ELSE 10 * int(SubSeq(s, 1, Len(s) - 1)) + digit

\* the characters of the words the callback data are made of
Chars(word) ==
    CASE word = "answer"     -> <<"a", "n", "s", "w", "e", "r">>
      [] word = "select"     -> <<"s", "e", "l", "e", "c", "t">>
      [] word = "q"          -> <<"q">>
      [] word = "next"       -> <<"n", "e", "x", "t">>
      [] word = "question"   -> <<"q", "u", "e", "s", "t", "i", "o", "n">>
      [] word = "continuous" -> <<"c", "o", "n", "t", "i", "n", "u", "o", "u", "s">>
      [] word = "start"      -> <<"s", "t", "a", "r", "t">>
      [] word = "test"       -> <<"t", "e", "s", "t">>
      [] word = "back"       -> <<"b", "a", "c", "k">>
      [] word = "to"         -> <<"t", "o">>
      [] word = "menu"       -> <<"m", "e", "n", "u">>
      [] word = "mode"       -> <<"m", "o", "d", "e">>
      [] OTHER               -> <<>>

RECURSIVE Join(_)
Join(fields) ==
    IF Len(fields) = 1 THEN fields[1]
    ELSE fields[1] \o <<"_">> \o Join(Tail(fields))

\* the f-string of create_answer_keyboard with its two numbers exchanged
AnswerDataIndexFirst(question_num, idx, mode) ==
    Join(<<Chars("answer"), str(idx), str(question_num), Chars(mode)>>)

\* f"answer_{question_num}_{idx}_{mode}"
AnswerData(question_num, idx, mode) ==
    Join(<<Chars("answer"), str(question_num), str(idx), Chars(mode)>>)

\* f"select_q_{num}"
SelectData(num) == Join(<<Chars("select"), Chars("q"), str(num)>>)

\* f"next_question_{next_question}_continuous"
NextData(next_question, mode) ==
    Join(<<Chars("next"), Chars("question"), str(next_question), Chars(mode)>>)

\* the callback_data string of the button for tok
callback_data(tok) ==
    CASE tok.kind = "answer"          -> AnswerData(tok.n, tok.idx, tok.mode)
      [] tok.kind = "select_q"        -> SelectData(tok.n)
      [] tok.kind = "next_question"   -> NextData(tok.n, tok.mode)
      [] tok.kind = "start_test"      -> Join(<<Chars("start"), Chars("test")>>)
      [] tok.kind = "back_to_menu"    -> Join(<<Chars("back"), Chars("to"), Chars("menu")>>)
      [] tok.kind = "mode_continuous" -> Join(<<Chars("mode"), Chars("continuous")>>)
      [] tok.kind = "mode_select"     -> Join(<<Chars("mode"), Chars("select")>>)
      [] OTHER                        -> <<>>

\* data.split("_")
RECURSIVE split(_)
split(data) ==
    IF \A i \in 1..Len(data) : data[i] # "_" THEN <<data>>
    ELSE LET i == CHOOSE k \in 1..Len(data) :
                      data[k] = "_" /\ \A j \in 1..(k - 1) : data[j] # "_"
         IN  <<SubSeq(data, 1, i - 1)>> \o split(SubSeq(data, i + 1, Len(data)))

startswith(data, prefix) ==
    Len(data) >= Len(prefix) /\ SubSeq(data, 1, Len(prefix)) = prefix

\* the callback_query handlers in the order of their registration, each with
\* its filter on F.data
Filters ==
    <<[handler |-> "start_test", startswith |-> FALSE,
       text |-> callback_data(Plain("start_test"))],
      [handler |-> "back_to_menu", startswith |-> FALSE,
       text |-> callback_data(Plain("back_to_menu"))],
      [handler |-> "mode_continuous", startswith |-> FALSE,
       text |-> callback_data(Plain("mode_continuous"))],
      [handler |-> "mode_select", startswith |-> FALSE,
       text |-> callback_data(Plain("mode_select"))],
      [handler |-> "select_question", startswith |-> TRUE,
       text |-> Join(<<Chars("select"), Chars("q"), <<>> >>)],
      [handler |-> "handle_answer", startswith |-> TRUE,
       text |-> Join(<<Chars("answer"), <<>> >>)],
      [handler |-> "handle_next_question", startswith |-> TRUE,
       text |-> Join(<<Chars("next"), Chars("question"), <<>> >>)]>>

Passes(filter, data) ==
    IF filter.startswith THEN startswith(data, filter.text) ELSE data = filter.text

\* the handlers whose filter the callback data pass
Handlers(data) == {Filters[i].handler : i \in {k \in 1..Len(Filters) : Passes(Filters[k], data)}}

\* the handler the dispatcher calls: the first registered one whose filter passes
Dispatch(data) ==
    IF Handlers(data) = {} THEN "unhandled"
    ELSE Filters[CHOOSE i \in 1..Len(Filters) :
                    /\ Passes(Filters[i], data)
                    /\ \A j \in 1..(i - 1) : ~Passes(Filters[j], data)].handler

\* a mode string as the handler compares it
ModeOf(chars) ==
    IF \E m \in Modes : Chars(m) = chars
    THEN CHOOSE m \in Modes : Chars(m) = chars
    ELSE "other"

\* what the handler called for the callback data reads from them
Parse(data) ==
    LET parts == split(data)
        handler == Dispatch(data)
    IN  CASE handler = "handle_answer" ->
                 AnswerToken(int(parts[2]), int(parts[3]), ModeOf(parts[4]))
          [] handler = "select_question" -> SelectToken(int(parts[Len(parts)]))
          [] handler = "handle_next_question" ->
                 NextToken(int(parts[3]), ModeOf(parts[4]))
          [] OTHER -> Plain(handler)

\* question numbers of the buttons the bot builds
ButtonNums == 0..(QuestionLimit + 3)

\* the callback data the model delivers or displays, in structured form
Buttons ==
    Tokens
    \cup {SelectToken(n) : n \in ButtonNums}
    \cup {AnswerToken(n, i, m) : n \in ButtonNums, i \in Idxs, m \in Modes}
    \cup {NextToken(n, m) : n \in ButtonNums, m \in Modes}

\* a press of the button for tok as the bot sees it: the handler called and
\* what that handler parses
Pressed == [tok \in Buttons |-> Parse(callback_data(tok))]

\* the handlers whose filter the callback data of the button for tok pass
Passing == [tok \in Buttons |-> Handlers(callback_data(tok))]

\* the callback queries that arrive: the callback data of Tokens, routed and parsed
Updates == {Pressed[tok] : tok \in Tokens}

(***************************************************************************)
(* Texts: a text is a sequence of pieces, each the characters from..to of  *)
(* a named string, so that len(), slices and concatenation act on lengths  *)
(***************************************************************************)
\* max_length of handle_answer
max_length == 4000

\* the longest button text create_answer_keyboard leaves whole
LabelLimit == 64

\* the characters create_answer_keyboard keeps of a longer answer
LabelKept == 61

\* len() of the named strings: the literals of main.py, the strings of the
\* banks that are longer than one character, and one-character strings
StrLen(name) ==
    CASE name = "" -> 0
      [] name = "none" -> 0
      [] name = "welcome" -> 72
      [] name = "main_menu" -> 28
      [] name = "question_selection" -> 30
      [] name = "not_found" -> 19
      [] name = "load_error" -> 26
      [] name = "completed" -> 64
      [] name = "correct" -> 28
      [] name = "wrong_head" -> 39
      [] name = "question_head" -> 12
      [] name = "question_colon" -> 7
      [] name = "answers_head" -> 27
      [] name = "..." -> 3
      [] name = "choice64" -> LabelLimit
      [] name = "choice65" -> LabelLimit + 1
      [] name = "choice70" -> LabelLimit + 6
      [] name = "long_answer" -> max_length + 500
      [] name = "edge_answer" -> max_length - 39
      [] name = "long_question" -> max_length + 500
      [] OTHER -> 1

Piece(name) ==
    IF StrLen(name) = 0 THEN <<>>
    ELSE <<[of |-> name, from |-> 1, to |-> StrLen(name)]>>

\* len(text)
RECURSIVE TextLen(_)
TextLen(text) ==
    IF text = <<>> THEN 0
    ELSE (Head(text).to - Head(text).from) + 1 + TextLen(Tail(text))

\* text[:k] for k >= 0
RECURSIVE Take(_, _)
Take(text, k) ==
    IF k <= 0 \/ text = <<>> THEN <<>>
    ELSE LET p == Head(text)
             l == (p.to - p.from) + 1
         IN  IF l <= k THEN <<p>> \o Take(Tail(text), k - l)
             ELSE <<[p EXCEPT !.to = (p.from + k) - 1]>>

\* text[k:] for k >= 0
RECURSIVE Drop(_, _)
Drop(text, k) ==
    IF text = <<>> THEN <<>>
    ELSE IF k <= 0 THEN text
    ELSE LET p == Head(text)
             l == (p.to - p.from) + 1
         IN  IF l <= k THEN Drop(Tail(text), k - l)
             ELSE <<[p EXCEPT !.from = p.from + k]>> \o Tail(text)

\* s + t: two pieces that follow each other in one string make one piece
Cat(s, t) ==
    IF s = <<>> THEN t
    ELSE IF t = <<>> THEN s
    ELSE LET p == s[Len(s)]
             q == t[1]
         IN  IF p.of = q.of /\ q.from = p.to + 1
             THEN SubSeq(s, 1, Len(s) - 1) \o <<[p EXCEPT !.to = q.to]>> \o Tail(t)
             ELSE s \o t

\* the text of a number in an f-string
NumberText(n) == [i \in 1..Len(str(n)) |-> [of |-> str(n)[i], from |-> 1, to |-> 1]]

\* the button text of create_answer_keyboard cut at LabelLimit characters
button_text_cut_at_limit(answer) ==
    IF TextLen(Piece(answer)) <= LabelLimit THEN Piece(answer)
    ELSE Cat(Take(Piece(answer), LabelLimit), Piece("..."))

\* button_text of create_answer_keyboard
button_text(answer) ==
    IF TextLen(Piece(answer)) <= LabelLimit THEN Piece(answer)
    ELSE Cat(Take(Piece(answer), LabelKept), Piece("..."))

\* the lines show_question adds to its text for the answers
RECURSIVE AnswerLines(_)
AnswerLines(answers) ==
    IF answers = <<>> THEN <<>>
    ELSE Cat(Cat(Cat(Piece("\n"), Piece(Head(answers))), Piece("\n")),
             AnswerLines(Tail(answers)))

\* text of show_question
QuestionBody(question_num, question_text, answers) ==
    Cat(Cat(Cat(Cat(Cat(Piece("question_head"), NumberText(question_num)),
                    Piece("question_colon")),
                Piece(question_text)),
            Piece("answers_head")),
        AnswerLines(answers))

\* response_text of handle_answer for an incorrect answer
WrongText(correct_answer) == Cat(Piece("wrong_head"), Piece(correct_answer))

\* a message sent or edited: its text and its inline keyboard
Sent(text, kb) == [text |-> text, kb |-> kb]

(***************************************************************************)
(* Keyboards and screens                                                   *)
(***************************************************************************)
BackButton == Plain("back_to_menu")

create_answer_keyboard(answers, question_num, mode) ==
    [i \in 1..Len(answers) |-> AnswerToken(question_num, i - 1, mode)] \o <<BackButton>>

create_question_selection_keyboard ==
    [i \in 1..QuestionLimit |-> SelectToken(i)] \o <<BackButton>>

create_main_menu_keyboard == <<Plain("mode_continuous"), Plain("mode_select")>>

\* a message of the bot: what its text says and its inline keyboard, the text
\* itself, the texts of its answer buttons, and the messages sent after it
Screen(kind, n, correct, kb) ==
    [kind |-> kind, n |-> n, correct_answer |-> correct, kb |-> kb,
     text |-> Piece(kind), labels |-> <<>>, sent |-> <<>>]

NoMessage == Screen("none", 0, "", <<>>)
WelcomeScreen == Screen("welcome", 0, "", <<Plain("start_test")>>)
MainMenuScreen == Screen("main_menu", 0, "", create_main_menu_keyboard)
SelectScreen == Screen("question_selection", 0, "", create_question_selection_keyboard)
NotFoundScreen == Screen("not_found", 0, "", <<>>)
LoadErrorScreen == Screen("load_error", 0, "", <<>>)
CorrectScreen(kb) == Screen("correct", 0, "", kb)
\* the result of an incorrect answer, its text in two messages when it is long
WrongScreen(correct_answer, kb) ==
    LET response_text == WrongText(correct_answer)
    IN  IF TextLen(response_text) > max_length
        THEN [Screen("wrong", 0, correct_answer, kb) EXCEPT
                 !.text = Take(response_text, max_length),
                 !.sent = <<Sent(Drop(response_text, max_length), <<>>)>>]
        ELSE [Screen("wrong", 0, correct_answer, kb) EXCEPT !.text = response_text]
CompletedScreen == Screen("completed", 0, "", <<BackButton>>)
QuestionScreen(question_num, mode) ==
    LET question_data == get_question_by_number(question_num)
        answers == question_data.answers
    IN  [Screen("question", question_num, "",
                create_answer_keyboard(answers, question_num, mode)) EXCEPT
            !.text = QuestionBody(question_num,
                                  QuestionText(question_data, question_num), answers),
            !.labels = [i \in 1..Len(answers) |-> button_text(answers[i])]]

(***************************************************************************)
(* FSM storage: the data dict of a chat; an absent key is the empty set    *)
(***************************************************************************)
Absent == {}

NoData == [current_question |-> Absent, mode |-> Absent]

\* the screen show_question leaves on the message it edits
show_question(question_num, mode) ==
    LET question_data == get_question_by_number(question_num)
    IN  IF ~Found(question_num) THEN NotFoundScreen
        ELSE IF QuestionText(question_data, question_num) = ""
                \/ question_data.answers = <<>> THEN LoadErrorScreen
        ELSE QuestionScreen(question_num, mode)

\* answers[answer_idx] of Python: a negative index counts from the end
PyIndex(answers, answer_idx) ==
    IF answer_idx >= 0 THEN answers[answer_idx + 1]
    ELSE answers[Len(answers) + answer_idx + 1]

\* answers[answer_idx] raises IndexError
IndexError(answers, answer_idx) == answer_idx < 0 - Len(answers)

(***************************************************************************)
(* What the last handler step was: its handler, what callback.answer() was *)
(* chat, what callback.answer() was given ("ok": no text, "error": the     *)
(* error alert, "none": not called), whether the handler raised, and, when *)
(* handle_answer computed is_correct, the callback data it judged          *)
(***************************************************************************)
Judged(h, c, ack, raised, tok) ==
    [h |-> h, chat |-> c, ack |-> ack, raised |-> raised, judged |-> tok]

NotJudged == Plain("")

Event(h, c, ack, raised) == Judged(h, c, ack, raised, NotJudged)

Init ==
    /\ questions_data \in {load_questions(len) : len \in BankLens}
    /\ storage = [c \in Chats |-> NoData]
    /\ screen = [c \in Chats |-> NoMessage]
    /\ tasks = [c \in Chats |-> EmptyBag]
    /\ last = Event("init", "", "none", FALSE)

HasMessage(c) == screen[c].kind # "none"

\* /start sends the message whose callbacks the model follows; the messages
\* later /start commands send are further messages of the same kind
cmd_start(c) ==
    /\ ~HasMessage(c)
    /\ screen' = [screen EXCEPT ![c] = WelcomeScreen]
    /\ last' = Event("cmd_start", c, "none", FALSE)
    /\ UNCHANGED <<questions_data, storage, tasks>>

start_test(c, tok) ==
    /\ HasMessage(c)
    /\ tok = Plain("start_test")
    /\ screen' = [screen EXCEPT ![c] = MainMenuScreen]
    /\ last' = Event("start_test", c, "ok", FALSE)
    /\ UNCHANGED <<questions_data, storage, tasks>>

\* back_to_menu without its state.clear()
back_to_menu_without_clear(c, tok) ==
    /\ HasMessage(c)
    /\ tok = Plain("back_to_menu")
    /\ screen' = [screen EXCEPT ![c] = MainMenuScreen]
    /\ last' = Event("back_to_menu", c, "ok", FALSE)
    /\ UNCHANGED <<questions_data, storage, tasks>>

back_to_menu(c, tok) ==
    /\ HasMessage(c)
    /\ tok = Plain("back_to_menu")
    /\ storage' = [storage EXCEPT ![c] = NoData]
    /\ screen' = [screen EXCEPT ![c] = MainMenuScreen]
    /\ last' = Event("back_to_menu", c, "ok", FALSE)
    /\ UNCHANGED <<questions_data, tasks>>

update_data(data, current_question, mode) ==
    [current_question |-> IF current_question = Absent THEN data.current_question
                          ELSE current_question,
     mode |-> IF mode = Absent THEN data.mode ELSE mode]

mode_continuous(c, tok) ==
    /\ HasMessage(c)
    /\ tok = Plain("mode_continuous")
    /\ storage' = [storage EXCEPT ![c] = update_data(@, {1}, {"continuous"})]
    /\ screen' = [screen EXCEPT ![c] = show_question(1, "continuous")]
    /\ last' = Event("mode_continuous", c, "ok", FALSE)
    /\ UNCHANGED <<questions_data, tasks>>

mode_select(c, tok) ==
    /\ HasMessage(c)
    /\ tok = Plain("mode_select")
    /\ screen' = [screen EXCEPT ![c] = SelectScreen]
    /\ last' = Event("mode_select", c, "ok", FALSE)
    /\ UNCHANGED <<questions_data, storage, tasks>>

select_question(c, tok) ==
    /\ HasMessage(c)
    /\ tok.kind = "select_q"
    /\ storage' = [storage EXCEPT ![c] = update_data(@, {tok.n}, {"select"})]
    /\ screen' = [screen EXCEPT ![c] = show_question(tok.n, "select")]
    /\ last' = Event("select_question", c, "ok", FALSE)
    /\ UNCHANGED <<questions_data, tasks>>

Lower(text) == IF text = "A" THEN "a" ELSE text

\* is_correct compared without regard to case
IsCorrectIgnoringCase(question_data, answer_idx) ==
    Lower(PyIndex(question_data.answers, answer_idx)) = Lower(question_data.correct_answer)

\* is_correct of handle_answer
IsCorrect(question_data, answer_idx) ==
    PyIndex(question_data.answers, answer_idx) = question_data.correct_answer

\* the keyboard of an incorrect continuous answer with 'next question' one further
WrongContinuousKeyboardSkipping(question_num) ==
    LET next_question == question_num + 2
    IN  (IF next_question <= QuestionLimit
         THEN <<NextToken(next_question, "continuous")>> ELSE <<>>)
        \o <<BackButton>>

\* the keyboard under the result of an incorrect answer in a continuous session
WrongContinuousKeyboard(question_num) ==
    LET next_question == question_num + 1
    IN  (IF next_question <= QuestionLimit
         THEN <<NextToken(next_question, "continuous")>> ELSE <<>>)
        \o <<BackButton>>

SelectResultKeyboard == <<Plain("mode_select"), BackButton>>

\* a handle_answer task suspended in asyncio.sleep(1.5) after a correct answer
\* to question_num of a continuous session
Task(question_num) == [question_num |-> question_num]

\* handle_answer up to its first suspension in the pacing delay, or to its end
handle_answer(c, tok) ==
    LET question_num == tok.n
        answer_idx == tok.idx
        mode == tok.mode
        question_data == get_question_by_number(question_num)
        answers == question_data.answers
        correct_answer == question_data.correct_answer
    IN  /\ HasMessage(c)
        /\ tok.kind = "answer"
        /\ UNCHANGED <<questions_data, storage>>
        /\ IF ~Found(question_num) \/ answer_idx >= Len(answers)
           THEN /\ last' = Event("handle_answer", c, "error", FALSE)
                /\ UNCHANGED <<screen, tasks>>
           ELSE IF IndexError(answers, answer_idx)
           THEN /\ last' = Event("handle_answer", c, "none", TRUE)
                /\ UNCHANGED <<screen, tasks>>
           ELSE IF mode = "continuous" /\ IsCorrect(question_data, answer_idx)
           THEN /\ BagCardinality(tasks[c]) < MaxTasks
                /\ screen' = [screen EXCEPT ![c] = CorrectScreen(<<>>)]
                /\ tasks' = [tasks EXCEPT ![c] = @ (+) SetToBag({Task(question_num)})]
                /\ last' = Judged("handle_answer", c, "ok", FALSE, tok)
           ELSE IF mode = "continuous"
           THEN /\ screen' = [screen EXCEPT ![c] =
                        WrongScreen(correct_answer, WrongContinuousKeyboard(question_num))]
                /\ last' = Judged("handle_answer", c, "ok", FALSE, tok)
                /\ UNCHANGED tasks
           ELSE /\ screen' = [screen EXCEPT ![c] =
                        IF IsCorrect(question_data, answer_idx)
                        THEN CorrectScreen(SelectResultKeyboard)
                        ELSE WrongScreen(correct_answer, SelectResultKeyboard)]
                /\ last' = Judged("handle_answer", c, "ok", FALSE, tok)
                /\ UNCHANGED tasks

\* the end of the pacing delay writing current_question to the data of every chat
handle_answer_resume_sharing_data(c, t) ==
    LET next_question == t.question_num + 1
    IN  /\ BagIn(t, tasks[c])
        /\ tasks' = [tasks EXCEPT ![c] = @ (-) SetToBag({t})]
        /\ IF next_question <= QuestionLimit
           THEN /\ storage' = [k \in DOMAIN storage |->
                                  update_data(storage[k], {next_question}, Absent)]
                /\ screen' = [screen EXCEPT ![c] = show_question(next_question, "continuous")]
           ELSE /\ screen' = [screen EXCEPT ![c] = CompletedScreen]
                /\ UNCHANGED storage
        /\ last' = Event("handle_answer_resume", c, "ok", FALSE)
        /\ UNCHANGED questions_data

\* handle_answer from the end of the pacing delay to its end
handle_answer_resume(c, t) ==
    LET next_question == t.question_num + 1
    IN  /\ BagIn(t, tasks[c])
        /\ tasks' = [tasks EXCEPT ![c] = @ (-) SetToBag({t})]
        /\ IF next_question <= QuestionLimit
           THEN /\ storage' = [storage EXCEPT ![c] = update_data(@, {next_question}, Absent)]
                /\ screen' = [screen EXCEPT ![c] = show_question(next_question, "continuous")]
           ELSE /\ screen' = [screen EXCEPT ![c] = CompletedScreen]
                /\ UNCHANGED storage
        /\ last' = Event("handle_answer_resume", c, "ok", FALSE)
        /\ UNCHANGED questions_data

\* handle_next_question storing the mode of its callback data as well
handle_next_question_storing_mode(c, tok) ==
    /\ HasMessage(c)
    /\ tok.kind = "next_question"
    /\ storage' = [storage EXCEPT ![c] = update_data(@, {tok.n}, {tok.mode})]
    /\ screen' = [screen EXCEPT ![c] = show_question(tok.n, tok.mode)]
    /\ last' = Event("handle_next_question", c, "ok", FALSE)
    /\ UNCHANGED <<questions_data, tasks>>

handle_next_question(c, tok) ==
    /\ HasMessage(c)
    /\ tok.kind = "next_question"
    /\ storage' = [storage EXCEPT ![c] = update_data(@, {tok.n}, Absent)]
    /\ screen' = [screen EXCEPT ![c] = show_question(tok.n, tok.mode)]
    /\ last' = Event("handle_next_question", c, "ok", FALSE)
    /\ UNCHANGED <<questions_data, tasks>>

\* dp.start_polling(bot): every update is handled in a task of its own, so a
\* callback of a chat is handled while tasks of the same chat are suspended
Next ==
    \E c \in Chats :
        \/ cmd_start(c)
        \/ \E tok \in Updates :
            \/ start_test(c, tok)
            \/ back_to_menu(c, tok)
            \/ mode_continuous(c, tok)
            \/ mode_select(c, tok)
            \/ select_question(c, tok)
            \/ handle_answer(c, tok)
            \/ handle_next_question(c, tok)
        \/ \E t \in BagToSet(tasks[c]) : handle_answer_resume(c, t)

Spec == Init /\ [][Next]_vars

(***************************************************************************)
(* Two chats: the FSM storage holds one data dict for each chat, and the   *)
(* updates of the two chats are handled in any order                       *)
(***************************************************************************)
TwoChats == {"A", "B"}

\* the callback data the two chats send
ChatTokens ==
    {Plain(k) : k \in {"start_test", "back_to_menu", "mode_continuous", "mode_select"}}
    \cup {SelectToken(1), NextToken(2, "continuous")}
    \cup {AnswerToken(1, i, m) : i \in {0, 2}, m \in Modes}

InitChats ==
    /\ questions_data = load_questions(QuestionLimit)
    /\ storage = [c \in TwoChats |-> NoData]
    /\ screen = [c \in TwoChats |-> NoMessage]
    /\ tasks = [c \in TwoChats |-> EmptyBag]
    /\ last = Event("init", "", "none", FALSE)

NextChats ==
    \E c \in TwoChats :
        \/ cmd_start(c)
        \/ \E tok \in {Pressed[b] : b \in ChatTokens} :
            \/ start_test(c, tok)
            \/ back_to_menu(c, tok)
            \/ mode_continuous(c, tok)
            \/ mode_select(c, tok)
            \/ select_question(c, tok)
            \/ handle_answer(c, tok)
            \/ handle_next_question(c, tok)
        \/ \E t \in BagToSet(tasks[c]) : handle_answer_resume(c, t)

SpecChats == InitChats /\ [][NextChats]_vars

(***************************************************************************)
(* One chat that presses only the buttons of the keyboard its message      *)
(* carries, over the banks of Init and over banks whose records all have a *)
(* text, answers and a correct answer among them                           *)
(***************************************************************************)
Range(seq) == {seq[i] : i \in 1..Len(seq)}

InitUI ==
    /\ questions_data \in
           {[n \in 1..len |-> QuestionRecord(n, "Q", <<"a", "b">>, "a")] : len \in BankLens}
           \cup {load_questions(len) : len \in BankLens}
    /\ storage = [c \in Chats |-> NoData]
    /\ screen = [c \in Chats |-> NoMessage]
    /\ tasks = [c \in Chats |-> EmptyBag]
    /\ last = Event("init", "", "none", FALSE)

NextUI ==
    \E c \in Chats :
        \/ cmd_start(c)
        \/ \E tok \in {Pressed[b] : b \in Range(screen[c].kb)} :
            \/ start_test(c, tok)
            \/ back_to_menu(c, tok)
            \/ mode_continuous(c, tok)
            \/ mode_select(c, tok)
            \/ select_question(c, tok)
            \/ handle_answer(c, tok)
            \/ handle_next_question(c, tok)
        \/ \E t \in BagToSet(tasks[c]) : handle_answer_resume(c, t)

SpecUI == InitUI /\ [][NextUI]_vars

(***************************************************************************)
(* A bank with long strings: answers of 64, 65 and 70 characters, a        *)
(* correct answer that makes a result text of exactly max_length           *)
(* characters, and a correct answer and a question text far beyond it      *)
(***************************************************************************)
LongBank ==
    <<QuestionRecord(1, "Q", <<"choice64", "choice65", "choice70">>, "choice70"),
      QuestionRecord(2, "Q", <<"a", "b">>, "long_answer"),
      QuestionRecord(3, "long_question", <<"a", "b">>, "edge_answer")>>

InitText ==
    /\ questions_data = LongBank
    /\ storage = [c \in Chats |-> NoData]
    /\ screen = [c \in Chats |-> NoMessage]
    /\ tasks = [c \in Chats |-> EmptyBag]
    /\ last = Event("init", "", "none", FALSE)

SpecText == InitText /\ [][Next]_vars

(***************************************************************************)
(* Properties                                                              *)
(***************************************************************************)
N == Len(questions_data)

Resumed == last.h = "handle_answer_resume"

\* the result screen of an incorrect answer given in a continuous session
IsWrongContinuous(s) == s.kind = "wrong" /\ s.kb # SelectResultKeyboard

\* the result screen of an answer given in select mode
IsSelectResult(s) == s.kind \in {"correct", "wrong"} /\ s.kb = SelectResultKeyboard

\* the callback carries a choice index that is no index of the question's answers
BadIndex(tok) ==
    tok.idx < 0 \/ tok.idx >= Len(get_question_by_number(tok.n).answers)

\* C1: when handle_answer has finished the auto-advance after a correct answer
\* to question n of a continuous session, the message shows question n+1 of the
\* continuous session if n < N and the Completed screen if n = N, N being the
\* length of the bank
C1_AutoAdvanceByBankLength ==
    [][\A c \in Chats : \A t \in BagToSet(tasks[c]) :
          handle_answer_resume(c, t) =>
              screen'[c] = IF t.question_num < N
                           THEN QuestionScreen(t.question_num + 1, "continuous")
                           ELSE CompletedScreen]_vars

\* C2: once the result of an incorrect answer of a continuous session is
\* displayed, the message changes only by a step the user fires; the pacing
\* delay of another handle_answer never replaces it
C2_WrongStaysUntilUserActs ==
    [][\A c \in Chats :
          (IsWrongContinuous(screen[c]) /\ screen'[c] # screen[c]) => ~Resumed']_vars

\* C3: an answer in select mode leaves a result screen whose controls are
\* exactly 'pick another' and 'return to menu', and that screen changes only
\* by a step the user fires
C3_SelectNeverAdvances ==
    [][\A c \in Chats :
          /\ \A tok \in Tokens :
                (handle_answer(c, tok) /\ tok.mode = "select" /\ Found(tok.n)
                    /\ ~BadIndex(tok)) =>
                    IsSelectResult(screen'[c])
          /\ (IsSelectResult(screen[c]) /\ screen'[c] # screen[c]) => ~Resumed']_vars

\* C4: while a handle_answer of a chat is suspended in the pacing delay, the
\* only step of that chat is the end of that delay
C4_NoInterleaving ==
    [][\A c \in Chats :
          (tasks[c] # EmptyBag /\ last'.chat = c) => Resumed']_vars

C6_BackEverywhere ==
    \A c \in Chats :
        /\ (\/ screen[c].kind \in {"question_selection", "question", "wrong",
                                   "completed", "not_found", "load_error"}
            \/ (screen[c].kind = "correct" /\ tasks[c] = EmptyBag))
           => BackButton \in Range(screen[c].kb)
        /\ screen[c].kind = "completed" => screen[c].kb = <<BackButton>>

\* C7: an answer callback for a question of the bank whose choice index is no
\* index of its answers is answered with the error alert and changes nothing
C7_BadIndexRejected ==
    [][\A c \in Chats : \A tok \in Tokens :
          (handle_answer(c, tok) /\ Found(tok.n) /\ BadIndex(tok)) =>
              /\ last'.ack = "error"
              /\ ~last'.raised
              /\ UNCHANGED <<storage, screen, tasks>>]_vars

\* C8: a callback carrying a question number outside 1..N does not raise,
\* shows or alerts an error, and leaves the session as it was
C8_BadNumberKeepsSession ==
    [][\A c \in Chats : \A tok \in Tokens :
          ((select_question(c, tok) \/ handle_next_question(c, tok)
                \/ handle_answer(c, tok)) /\ ~Found(tok.n)) =>
              /\ ~last'.raised
              /\ last'.ack = "error" \/ screen'[c] = NotFoundScreen
              /\ storage' = storage]_vars

\* C9: an answer with a valid choice index is judged correct exactly when the
\* chosen text is the record's correct_answer, character for character; so an
\* answer to a record whose correct_answer is none of its answers is judged
\* incorrect
C9_ExactEquality ==
    (last.judged # NotJudged /\ ~BadIndex(last.judged)) =>
        LET question_data == questions_data[last.judged.n]
            chosen == question_data.answers[last.judged.idx + 1]
            verdict == screen[last.chat].kind
        IN  /\ verdict \in {"correct", "wrong"}
            /\ verdict = "correct" <=> chosen = question_data.correct_answer
            /\ question_data.correct_answer \notin Range(question_data.answers)
                  => verdict = "wrong"

\* the result of an answer to a record whose correct_answer is none of its answers
C9_Witness ==
    /\ last.judged # NotJudged
    /\ ~BadIndex(last.judged)
    /\ screen[last.chat].kind = "wrong"
    /\ screen[last.chat].correct_answer = "c"

\* C10: the result screen of an incorrect answer to question n of a continuous
\* session offers 'next question', targeting (n+1, continuous), exactly when
\* n < N, and only return-to-menu when n = N
C10_NextOfferedBelowBankLength ==
    [][\A c \in Chats : \A tok \in Tokens :
          (handle_answer(c, tok) /\ tok.mode = "continuous" /\ Found(tok.n)
              /\ ~BadIndex(tok) /\ screen'[c].kind = "wrong") =>
              screen'[c].kb = IF tok.n < N
                              THEN <<NextToken(tok.n + 1, "continuous"), BackButton>>
                              ELSE <<BackButton>>]_vars

\* C13: the automatic advance and the 'next question' action replace only
\* current_question: the mode stored in the session is the same after them
C13_AdvanceKeepsMode ==
    [][last'.h \in {"handle_answer_resume", "handle_next_question"} =>
          storage'[last'.chat].mode = storage[last'.chat].mode]_vars

\* an advance has shown the next question in a session that holds a mode
C13_Witness ==
    /\ last.h \in {"handle_answer_resume", "handle_next_question"}
    /\ screen[last.chat].kind = "question"
    /\ storage[last.chat].current_question = {screen[last.chat].n}
    /\ storage[last.chat].mode # Absent

\* C16: get_question_by_number(n) is the record at position n of the bank for
\* 1 <= n <= len(bank) and not-found for every other n
C16_GetByPosition ==
    \A n \in (0 - 1)..(Len(questions_data) + 2) :
        IF n \in 1..Len(questions_data)
        THEN get_question_by_number(n) = questions_data[n]
        ELSE get_question_by_number(n) = NoQuestion

\* a question beyond the bank was asked for and one of the bank was shown before
C16_Witness ==
    \E c \in Chats :
        /\ screen[c].kind = "not_found"
        /\ storage[c].current_question # Absent
        /\ \A n \in storage[c].current_question : n > Len(questions_data)

\* the mode the answer buttons of a question screen carry
ScreenMode(s) == s.kb[1].mode

\* C18: while a question screen for (n, m) is displayed, the session of the
\* chat holds current_question = n and mode = m
C18_SessionMatchesScreen ==
    \A c \in Chats :
        screen[c].kind = "question" =>
            /\ storage[c].current_question = {screen[c].n}
            /\ storage[c].mode = {ScreenMode(screen[c])}

\* C19: the session of a chat is absent, or holds a current_question in 1..N
\* together with a mode
C19_SessionWellFormed ==
    \A c \in Chats :
        \/ storage[c] = NoData
        \/ /\ \E n \in 1..N : storage[c].current_question = {n}
           /\ \E m \in Modes : storage[c].mode = {m}

\* C20: the Completed screen appears only when handle_answer finishes the
\* pacing delay after a correct answer to question N of a continuous session
C20_CompletedOnlyAfterLast ==
    [][\A c \in Chats :
          (screen'[c].kind = "completed" /\ screen[c].kind # "completed") =>
              \E t \in BagToSet(tasks[c]) :
                  handle_answer_resume(c, t) /\ t.question_num = N]_vars
\* the handler registered for the kind of a button
HandlerOf(kind) ==
    CASE kind = "answer" -> "handle_answer"
      [] kind = "select_q" -> "select_question"
      [] kind = "next_question" -> "handle_next_question"
      [] OTHER -> kind

\* the buttons whose callback data pass the filter of the handler of their own
\* kind and of no other, and from whose data that handler parses what the
\* button was built from
RoundTrips ==
    {tok \in Buttons : Passing[tok] = {HandlerOf(tok.kind)} /\ Pressed[tok] = tok}

\* C11: the callback data of every button on display, and of every callback
\* that arrives, pass the filter of the handler of their own kind and of no
\* other, and that handler parses from them the numbers and the mode the data
\* were built from
C11_TokenRoundTrip ==
    /\ Tokens \subseteq RoundTrips
    /\ \A c \in Chats : \A i \in 1..Len(screen[c].kb) : screen[c].kb[i] \in RoundTrips

\* a question is on display after its 'next question' button was pressed
C11_Witness ==
    \E c \in Chats :
        /\ last.h = "handle_next_question"
        /\ screen[c].kind = "question"
        /\ \E i \in 1..Len(screen[c].kb) : screen[c].kb[i].kind = "answer"

\* C12: a step of one chat leaves the session of every other chat as it was,
\* and no step changes the question bank
C12_SessionsApart ==
    [][/\ \A c \in TwoChats : last'.chat # c => storage'[c] = storage[c]
       /\ questions_data' = questions_data]_vars

\* the delayed write of one chat has happened while the other chat holds a
\* session of its own and a suspended handle_answer
C12_Witness ==
    \E c \in TwoChats : \E b \in TwoChats \ {c} :
        /\ last.h = "handle_answer_resume"
        /\ last.chat = c
        /\ storage[c].current_question = {2}
        /\ storage[b].current_question = {1}
        /\ storage[b].mode # storage[c].mode
        /\ tasks[b] # EmptyBag
\* the step has called show_question
Shows(h) ==
    h \in {"mode_continuous", "select_question", "handle_answer_resume", "handle_next_question"}

Body(s) ==
    CASE s.kind = "question" ->
             QuestionBody(s.n, QuestionText(questions_data[s.n], s.n),
                          questions_data[s.n].answers)
      [] s.kind = "wrong" -> WrongText(s.correct_answer)
      [] OTHER -> Piece(s.kind)

\* C14: a body text of more than 4000 characters is delivered as two messages,
\* its first 4000 characters in the edited message that carries the keyboard
\* and the rest in one new message without keyboard; a body text of at most
\* 4000 characters is delivered as the edited message alone; question screens
\* included
C14_LongBodySplit ==
    \A c \in Chats :
        LET s == screen[c]
            t == Body(s)
        IN  IF TextLen(t) > 4000
            THEN /\ s.text = Take(t, 4000)
                 /\ TextLen(s.text) = 4000
                 /\ Len(s.sent) = 1
                 /\ s.sent[1] = Sent(Drop(t, 4000), <<>>)
                 /\ Cat(s.text, s.sent[1].text) = t
                 /\ BackButton \in Range(s.kb)
            ELSE /\ s.text = t
                 /\ s.sent = <<>>

\* text holds part as a run of whole pieces
Contains(text, part) ==
    \E k \in 1..Len(text) :
        k + Len(part) - 1 <= Len(text) /\ SubSeq(text, k, k + Len(part) - 1) = part

\* C15: on a question screen the text of the i-th button is the i-th answer
\* when that has at most 64 characters and its first 61 characters followed by
\* "..." otherwise, never more than 64 characters; the message text holds the
\* answer in full; and the i-th button carries choice index i - 1
C15_LabelTruncation ==
    \A c \in Chats :
        screen[c].kind = "question" =>
            LET s == screen[c]
                answers == questions_data[s.n].answers
            IN  /\ Len(s.labels) = Len(answers)
                /\ Len(s.kb) = Len(answers) + 1
                /\ \A i \in 1..Len(answers) :
                      /\ StrLen(answers[i]) <= 64 =>
                            s.labels[i] = <<[of |-> answers[i], from |-> 1,
                                             to |-> StrLen(answers[i])]>>
                      /\ StrLen(answers[i]) > 64 =>
                            s.labels[i] = <<[of |-> answers[i], from |-> 1, to |-> 61],
                                            [of |-> "...", from |-> 1, to |-> 3]>>
                      /\ TextLen(s.labels[i]) <= 64
                      /\ Contains(s.text, Piece(answers[i]))
                      /\ s.kb[i].kind = "answer"
                      /\ s.kb[i].n = s.n
                      /\ s.kb[i].idx = i - 1

\* a question is shown that has an answer of exactly 64 characters and longer ones
C15_Witness ==
    \E c \in Chats :
        /\ screen[c].kind = "question"
        /\ \E i, j \in 1..Len(screen[c].labels) :
              /\ StrLen(questions_data[screen[c].n].answers[i]) = 64
              /\ StrLen(questions_data[screen[c].n].answers[j]) > 64
====
